---------------------------- MODULE Spec2Model ----------------------------
(***************************************************************************)
(* Model of the mental wellness support bot (src/app.py): the crisis       *)
(* detector, scorer, theme extractor, strategy selector and explainer as   *)
(* operators over character sequences, and run_bot() as a state machine    *)
(* whose every speak()/speak_slow() call may meet a failing speech backend.*)
(*                                                                         *)
(* A Python str is a sequence of one-character strings, so that lower(),   *)
(* strip(), title() and the substring test `in` are computed, not assumed. *)
(***************************************************************************)
EXTENDS Integers, Sequences, FiniteSets

VARIABLES
    platform_mac,    \* _TTS_IS_MAC (set when the module is loaded)
    have_pyttsx3,    \* pyttsx3 is not None (set when the module is loaded)
    say_on_path,     \* shutil.which('say') finds the macOS command
    tts_engine,      \* _TTS_ENGINE: "None" or "Engine"
    tts_rate,        \* the 'rate' property of the pyttsx3 engine
    pc,              \* position of run_bot()
    answers,         \* run_bot's answers dict (a missing key reads as "")
    user_inputs,     \* run_bot's user_inputs list
    crisis_flag,     \* run_bot's crisis_flag
    followup_resps,  \* run_bot's followup_resps (follow_up's list while it runs)
    score,           \* run_bot's score
    themes,          \* run_bot's themes
    strategies,      \* run_bot's strategies
    explained,       \* the per-theme evidence lines explain_why printed
    choice,          \* run_bot's choice ("yes"/"no")
    chosen,          \* run_bot's chosen (a title-cased strategy name)
    shown_desc,      \* the description printed for the chosen strategy
    retries,         \* rejected responses of the ask_choice loop in progress
    out,             \* what the session printed so far, in order
    raised,          \* the exception that ended run_bot, "none" if none
    call             \* a direct call of one core function and its results

vars == << platform_mac, have_pyttsx3, say_on_path, tts_engine, tts_rate, pc,
           answers, user_inputs, crisis_flag, followup_resps, score, themes,
           strategies, explained, choice, chosen, shown_desc, retries, out,
           raised, call >>

session_vars == << platform_mac, have_pyttsx3, say_on_path, tts_engine,
                   tts_rate, pc, answers, user_inputs, crisis_flag,
                   followup_resps, score, themes, strategies, explained,
                   choice, chosen, shown_desc, retries, out, raised >>

-----------------------------------------------------------------------------
(* Bounds of the model.                                                    *)

\* Longest text, in vocabulary words, given to a directly called function.
MaxWords == 2

\* Most responses one ask_choice loop rejects before a valid one arrives.
MaxRetries == 1

-----------------------------------------------------------------------------
(* Python str operations.                                                  *)

\* The characters of the model in code-point order (U+2011 is the
\* non-breaking hyphen of "self-compassion practice", src/app.py:341).
CharOrder ==
    << " ", "'", "-",
       "A", "B", "C", "D", "E", "F", "G", "H", "I", "J", "K", "L", "M",
       "N", "O", "P", "Q", "R", "S", "T", "U", "V", "W", "X", "Y", "Z",
       "a", "b", "c", "d", "e", "f", "g", "h", "i", "j", "k", "l", "m",
       "n", "o", "p", "q", "r", "s", "t", "u", "v", "w", "x", "y", "z",
       "U+2011" >>

Chars == { CharOrder[i] : i \in 1..Len(CharOrder) }

OrdOf == [ c \in Chars |-> CHOOSE i \in 1..Len(CharOrder) : CharOrder[i] = c ]

IsUpperChar(c) == OrdOf[c] \in 4..29
IsLowerChar(c) == OrdOf[c] \in 30..55
IsCased(c) == IsUpperChar(c) \/ IsLowerChar(c)

LowerChar(c) == IF IsUpperChar(c) THEN CharOrder[OrdOf[c] + 26] ELSE c
UpperChar(c) == IF IsLowerChar(c) THEN CharOrder[OrdOf[c] - 26] ELSE c

\* str.lower()
lower(s) == [ i \in 1..Len(s) |-> LowerChar(s[i]) ]

\* str.title(): a cased character is upper-cased when the character before
\* it is not cased, lower-cased otherwise.
title(s) ==
    [ i \in 1..Len(s) |->
        IF i = 1 \/ ~IsCased(s[i - 1]) THEN UpperChar(s[i]) ELSE LowerChar(s[i]) ]

\* str.strip()
strip(s) ==
    LET keep == { i \in 1..Len(s) : s[i] # " " }
    IN  IF keep = {} THEN << >>
        ELSE LET first == CHOOSE i \in keep : \A j \in keep : i <= j
                 last  == CHOOSE i \in keep : \A j \in keep : j <= i
             IN  SubSeq(s, first, last)

\* `p in s` for two str
In(p, s) ==
    \E i \in 0..(Len(s) - Len(p)) : \A j \in 1..Len(p) : s[i + j] = p[j]

\* sep.join(parts)
RECURSIVE join(_, _)
join(sep, parts) ==
    IF Len(parts) = 0 THEN << >>
    ELSE IF Len(parts) = 1 THEN parts[1]
    ELSE parts[1] \o sep \o join(sep, Tail(parts))

\* a < b for two str (code-point order, a proper prefix first)
StrLess(a, b) ==
    \E i \in 1..Len(b) :
        /\ i <= Len(a) + 1
        /\ \A j \in 1..(i - 1) : a[j] = b[j]
        /\ (i = Len(a) + 1 \/ OrdOf[a[i]] < OrdOf[b[i]])

\* sorted(set(xs)) for a list of str
RECURSIVE SortedSet(_)
SortedSet(S) ==
    IF S = {} THEN << >>
    ELSE LET m == CHOOSE x \in S : \A y \in S : y = x \/ StrLess(x, y)
         IN  << m >> \o SortedSet(S \ {m})

sorted_set(xs) == SortedSet({ xs[i] : i \in 1..Len(xs) })

\* xs[:n]
Prefix(xs, n) == SubSeq(xs, 1, IF Len(xs) < n THEN Len(xs) ELSE n)

-----------------------------------------------------------------------------
(* Knowledge base.                                                         *)

CRISIS_KEYWORDS ==
    << <<"s", "u", "i", "c", "i", "d", "e">>,
       <<"k", "i", "l", "l", " ", "m", "y", "s", "e", "l", "f">>,
       <<"e", "n", "d", " ", "m", "y", " ", "l", "i", "f", "e">>,
       <<"c", "a", "n", "'", "t", " ", "g", "o", " ", "o", "n">>,
       <<"h", "o", "p", "e", "l", "e", "s", "s">>,
       <<"s", "e", "l", "f", "-", "h", "a", "r", "m">>,
       <<"h", "u", "r", "t", "i", "n", "g", " ", "m", "y", "s", "e", "l", "f">>,
       <<"o", "v", "e", "r", "d", "o", "s", "e">>,
       <<"j", "u", "m", "p">>,
       <<"c", "u", "t">>,
       <<"d", "i", "e">>,
       <<"e", "n", "d", "i", "n", "g", " ", "i", "t">>,
       <<"g", "i", "v", "e", " ", "u", "p">> >>

\* STRATEGIES in declaration order (dict iteration order).
STRATEGIES ==
    << [ key    |-> <<"m", "i", "n", "d", "f", "u", "l", "n", "e", "s", "s">>,
         desc   |-> "Practice being present: try mindful breathing, or notice sensations around you.",
         themes |-> << "anxiety", "stress", "overthinking", "panic" >> ],
       [ key    |-> <<"j", "o", "u", "r", "n", "a", "l", "i", "n", "g">>,
         desc   |-> "Write down your thoughts and feelings for 5-10 minutes.",
         themes |-> << "rumination", "sadness", "confusion" >> ],
       [ key    |-> <<"r", "e", "a", "c", "h", " ", "o", "u", "t">>,
         desc   |-> "Connect with a friend, family member, or helpline.",
         themes |-> << "loneliness", "hopelessness", "crisis" >> ],
       [ key    |-> <<"m", "o", "v", "e", "m", "e", "n", "t">>,
         desc   |-> "Move your body gently: stretch, walk, or dance for a few minutes.",
         themes |-> << "low energy", "tension", "restlessness" >> ],
       [ key    |-> <<"s", "e", "l", "f", "-", "c", "o", "m", "p", "a", "s", "s", "i", "o", "n">>,
         desc   |-> "Speak kindly to yourself as you would to a friend.",
         themes |-> << "self-criticism", "shame", "guilt" >> ],
       [ key    |-> <<"g", "r", "o", "u", "n", "d", "i", "n", "g">>,
         desc   |-> "Try the 5-4-3-2-1 technique: notice 5 things you see, 4 you feel, 3 you hear, 2 you smell, 1 you taste.",
         themes |-> << "panic", "dissociation", "anxiety" >> ] >>

StrategyKeys == { STRATEGIES[i].key : i \in 1..Len(STRATEGIES) }

\* STRATEGIES[k]; the lookup of a missing key is a KeyError
StrategyOf(k) == CHOOSE s \in { STRATEGIES[i] : i \in 1..Len(STRATEGIES) } : s.key = k

\* THEME_CUES in declaration order.
THEME_CUES ==
    << [ theme   |-> "anxiety",
         present |-> << <<"a", "n", "x">>, <<"w", "o", "r", "r", "y">>, <<"o", "n", " ", "e", "d", "g", "e">>, <<"k", "e", "y", "e", "d", "-", "u", "p">>, <<"k", "e", "y", "e", "d", " ", "u", "p">>, <<"p", "a", "n", "i", "c">> >>,
         missing_examples |-> << <<"m", "u", "s", "c", "l", "e", " ", "t", "e", "n", "s", "i", "o", "n">>, <<"r", "a", "c", "i", "n", "g", " ", "t", "h", "o", "u", "g", "h", "t", "s">>, <<"r", "e", "s", "t", "l", "e", "s", "s", "n", "e", "s", "s">> >> ],
       [ theme   |-> "low energy",
         present |-> << <<"l", "o", "w", " ", "e", "n", "e", "r", "g", "y">>, <<"e", "x", "h", "a", "u", "s", "t", "e", "d">>, <<"t", "i", "r", "e", "d">> >>,
         missing_examples |-> << <<"r", "e", "f", "r", "e", "s", "h", "i", "n", "g", " ", "s", "l", "e", "e", "p">>, <<"r", "e", "g", "u", "l", "a", "r", " ", "m", "e", "a", "l", "s">>, <<"l", "i", "g", "h", "t", " ", "a", "c", "t", "i", "v", "i", "t", "y">> >> ],
       [ theme   |-> "overthinking",
         present |-> << <<"o", "v", "e", "r", "t", "h", "i", "n", "k">>, <<"r", "u", "m", "i", "n", "a", "t">> >>,
         missing_examples |-> << <<"t", "i", "m", "e", "-", "b", "o", "x", "e", "d", " ", "w", "o", "r", "r", "y">>, <<"j", "o", "u", "r", "n", "a", "l", "i", "n", "g">> >> ],
       [ theme   |-> "hopelessness",
         present |-> << <<"h", "o", "p", "e", "l", "e", "s", "s">> >>,
         missing_examples |-> << <<"r", "e", "c", "e", "n", "t", " ", "p", "o", "s", "i", "t", "i", "v", "e", " ", "m", "o", "m", "e", "n", "t", "s">>, <<"s", "u", "p", "p", "o", "r", "t", "i", "v", "e", " ", "c", "o", "n", "t", "a", "c", "t">> >> ],
       [ theme   |-> "panic",
         present |-> << <<"p", "a", "n", "i", "c">> >>,
         missing_examples |-> << <<"g", "r", "o", "u", "n", "d", "i", "n", "g", " ", "t", "e", "c", "h", "n", "i", "q", "u", "e", " ", "u", "s", "e", "d">>, <<"b", "r", "e", "a", "t", "h", "i", "n", "g", " ", "e", "x", "e", "r", "c", "i", "s", "e", " ", "t", "r", "i", "e", "d">> >> ],
       [ theme   |-> "loneliness",
         present |-> << <<"l", "o", "n", "e", "l", "y">>, <<"a", "l", "o", "n", "e">> >>,
         missing_examples |-> << <<"r", "e", "c", "e", "n", "t", " ", "c", "h", "e", "c", "k", "-", "i", "n", " ", "w", "i", "t", "h", " ", "s", "o", "m", "e", "o", "n", "e">> >> ],
       [ theme   |-> "self-criticism",
         present |-> << <<"s", "e", "l", "f", "-", "c", "r", "i", "t">>, <<"g", "u", "i", "l", "t">>, <<"s", "h", "a", "m", "e">> >>,
         missing_examples |-> << <<"s", "e", "l", "f", "U+2011", "c", "o", "m", "p", "a", "s", "s", "i", "o", "n", " ", "p", "r", "a", "c", "t", "i", "c", "e">> >> ] >>

\* THEME_CUES.get(theme, {"present": [], "missing_examples": []})
CuesOf(theme) ==
    IF \E i \in 1..Len(THEME_CUES) : THEME_CUES[i].theme = theme
    THEN CHOOSE c \in { THEME_CUES[i] : i \in 1..Len(THEME_CUES) } : c.theme = theme
    ELSE [ theme |-> theme, present |-> << >>, missing_examples |-> << >> ]

\* The keys of CHECKIN_QUESTIONS, in question order.
CHECKIN_QUESTIONS == << "emotion", "stress", "energy", "thoughts", "difficulties" >>

\* An empty answers dict: answers.get(key, "") reads "" for a key not yet set.
NoAnswers == [ k \in { CHECKIN_QUESTIONS[i] : i \in 1..Len(CHECKIN_QUESTIONS) } |-> << >> ]

\* " ".join(answers.values()), the keys in insertion (question) order
JoinedAnswers(a) ==
    join(<< " " >>, [ i \in 1..Len(CHECKIN_QUESTIONS) |-> a[CHECKIN_QUESTIONS[i]] ])

-----------------------------------------------------------------------------
(* Core functions.                                                         *)

\* contains_crisis without the lower(): the keywords matched case-sensitively
contains_crisis_cased(text) ==
    \E i \in 1..Len(CRISIS_KEYWORDS) : In(CRISIS_KEYWORDS[i], text)

contains_crisis(text) ==
    LET t_lower == lower(text)
    IN  \E i \in 1..Len(CRISIS_KEYWORDS) : In(CRISIS_KEYWORDS[i], t_lower)

\* score_checkin with the elif turned into a second if
score_checkin_both(a) ==
    (IF In(<<"s", "e", "v", "e", "r", "e">>, lower(a["stress"])) THEN 2 ELSE 0)
    + (IF In(<<"m", "o", "d", "e", "r", "a", "t", "e">>, lower(a["stress"])) THEN 1 ELSE 0)
    + (IF In(<<"l", "o", "w">>, lower(a["energy"])) THEN 1 ELSE 0)
    + (IF \E i \in 1..Len(CRISIS_KEYWORDS) :
              In(CRISIS_KEYWORDS[i], lower(a["thoughts"])) THEN 3 ELSE 0)
    + (IF strip(a["difficulties"]) # << >> THEN 1 ELSE 0)

score_checkin(a) ==
    (IF In(<<"s", "e", "v", "e", "r", "e">>, lower(a["stress"])) THEN 2
     ELSE IF In(<<"m", "o", "d", "e", "r", "a", "t", "e">>, lower(a["stress"])) THEN 1 ELSE 0)
    + (IF In(<<"l", "o", "w">>, lower(a["energy"])) THEN 1 ELSE 0)
    + (IF \E i \in 1..Len(CRISIS_KEYWORDS) :
              In(CRISIS_KEYWORDS[i], lower(a["thoughts"])) THEN 3 ELSE 0)
    + (IF strip(a["difficulties"]) # << >> THEN 1 ELSE 0)

\* themes.append(x) under `if cond`
AppendIf(xs, cond, x) == IF cond THEN Append(xs, x) ELSE xs

\* rank_themes reading the whole check-in instead of one field per rule
rank_themes_anyfield(a) ==
    LET all == lower(JoinedAnswers(a))
        t1 == AppendIf(<< >>, In(<<"a", "n", "x">>, all), "anxiety")
        t2 == AppendIf(t1, In(<<"l", "o", "w">>, all), "low energy")
        t3 == AppendIf(t2, In(<<"o", "v", "e", "r", "t", "h", "i", "n", "k">>, all), "overthinking")
        t4 == AppendIf(t3, In(<<"h", "o", "p", "e", "l", "e", "s", "s">>, all), "hopelessness")
        t5 == AppendIf(t4, In(<<"p", "a", "n", "i", "c">>, all), "panic")
        t6 == AppendIf(t5, In(<<"l", "o", "n", "e", "l", "y">>, all), "loneliness")
    IN  AppendIf(t6, In(<<"s", "e", "l", "f", "-", "c", "r", "i", "t">>, all), "self-criticism")

rank_themes(a) ==
    LET t1 == AppendIf(<< >>, In(<<"a", "n", "x">>, lower(a["stress"])), "anxiety")
        t2 == AppendIf(t1, In(<<"l", "o", "w">>, lower(a["energy"])), "low energy")
        t3 == AppendIf(t2, In(<<"o", "v", "e", "r", "t", "h", "i", "n", "k">>, lower(a["thoughts"])), "overthinking")
        t4 == AppendIf(t3, In(<<"h", "o", "p", "e", "l", "e", "s", "s">>, lower(a["emotion"])), "hopelessness")
        t5 == AppendIf(t4, In(<<"p", "a", "n", "i", "c">>, lower(a["emotion"])), "panic")
        t6 == AppendIf(t5, In(<<"l", "o", "n", "e", "l", "y">>, lower(a["emotion"])), "loneliness")
    IN  AppendIf(t6, In(<<"s", "e", "l", "f", "-", "c", "r", "i", "t">>, lower(a["thoughts"])), "self-criticism")

\* any(t in v["themes"] for t in themes)
Matches(v, ths) ==
    \E i \in 1..Len(ths) : \E j \in 1..Len(v.themes) : ths[i] = v.themes[j]

\* The loop of choose_strategies over STRATEGIES.items(), before the fallback.
matched_strategies(ths) ==
    LET hit == SelectSeq(STRATEGIES, LAMBDA v : Matches(v, ths))
    IN  [ i \in 1..Len(hit) |-> hit[i].key ]

\* choose_strategies looping over the themes and collecting each theme's
\* strategies, instead of looping over STRATEGIES
RECURSIVE strategies_by_theme(_)
strategies_by_theme(ths) ==
    IF ths = << >> THEN << >>
    ELSE matched_strategies(<< Head(ths) >>) \o strategies_by_theme(Tail(ths))

choose_strategies_by_theme(ths) ==
    LET recs == strategies_by_theme(ths)
    IN  IF recs = << >> THEN << <<"m", "i", "n", "d", "f", "u", "l", "n", "e", "s", "s">>, <<"r", "e", "a", "c", "h", " ", "o", "u", "t">> >> ELSE recs

choose_strategies(ths) ==
    LET recs == matched_strategies(ths)
    IN  IF recs = << >> THEN << <<"m", "i", "n", "d", "f", "u", "l", "n", "e", "s", "s">>, <<"r", "e", "a", "c", "h", " ", "o", "u", "t">> >> ELSE recs

\* One printed evidence line of explain_why: the theme, sorted(set(heard))
\* and missing[:2].
EvidenceLine(theme, combined) ==
    LET cues    == CuesOf(theme)
        heard   == SelectSeq(cues.present, LAMBDA k : In(k, combined))
        missing == SelectSeq(cues.missing_examples, LAMBDA m : ~In(lower(m), combined))
    IN  [ theme |-> theme, heard |-> sorted_set(heard), missing |-> Prefix(missing, 2) ]

\* explain_why without the cap of three themes
explain_why_uncapped(strats, ths, a) ==
    LET combined == lower(JoinedAnswers(a))
    IN  IF ths = << >>
        THEN [ generic |-> TRUE, reason |-> << >>, lines |-> << >> ]
        ELSE [ generic |-> FALSE, reason |-> ths,
               lines |-> [ i \in 1..Len(ths) |-> EvidenceLine(ths[i], combined) ] ]

\* What explain_why prints: the generic sentence, or the reason sentence
\* naming all themes followed by the evidence lines of themes[:3].
explain_why(strats, ths, a) ==
    LET combined == lower(JoinedAnswers(a))
        top == Prefix(ths, 3)
    IN  IF ths = << >>
        THEN [ generic |-> TRUE, reason |-> << >>, lines |-> << >> ]
        ELSE [ generic |-> FALSE, reason |-> ths,
               lines |-> [ i \in 1..Len(top) |-> EvidenceLine(top[i], combined) ] ]

-----------------------------------------------------------------------------
(* Narration.  A speech backend may fail at each call: pyttsx3.init() or   *)
(* the voice setup may raise, say()/runAndWait() may raise, and so may the *)
(* say() of the fallback speak() inside speak_slow().                      *)

\* engine.setProperty('rate', 175) of _init_pyttsx3
DEFAULT_RATE == 175

SLOW_RATE_PYTTSX3 == 150

NoFault == [ init |-> FALSE, say |-> FALSE, retry |-> FALSE ]

\* Which operations of the backend fail during one speak/speak_slow call:
\* none, the engine's initialisation, the speaking, or the speaking and the
\* speaking of the fallback too (the fallback runs only after a failure).
Faults ==
    { NoFault,
      [ init |-> TRUE, say |-> FALSE, retry |-> FALSE ],
      [ init |-> FALSE, say |-> TRUE, retry |-> FALSE ],
      [ init |-> FALSE, say |-> TRUE, retry |-> TRUE ] }

\* The call returned / raised, leaving _TTS_ENGINE and its rate as given.
Returned(eng, rate) == [ raises |-> FALSE, engine |-> eng, rate |-> rate ]
Raising(eng, rate) == [ raises |-> TRUE, engine |-> eng, rate |-> rate ]

\* _speak_mac and _speak_mac_with_rate: return at once without the 'say'
\* command; otherwise run it and swallow any Exception.
_speak_mac(eng, rate, fault) ==
    IF ~say_on_path THEN Returned(eng, rate)
    ELSE IF fault.say THEN Returned(eng, rate)
    ELSE Returned(eng, rate)

\* _speak_pyttsx3 with _init_pyttsx3: no try around init(), say() or
\* runAndWait(); an init() that raises leaves _TTS_ENGINE None.
_speak_pyttsx3(eng, rate, init_fails, say_fails) ==
    IF eng = "None" /\ ~have_pyttsx3 THEN Returned(eng, rate)
    ELSE IF eng = "None" /\ init_fails THEN Raising("None", rate)
    ELSE LET rate1 == IF eng = "None" THEN DEFAULT_RATE ELSE rate
         IN  IF say_fails THEN Raising("Engine", rate1)
             ELSE Returned("Engine", rate1)

speak(text, eng, rate, fault) ==
    IF text = "" THEN Returned(eng, rate)
    ELSE IF platform_mac THEN _speak_mac(eng, rate, fault)
    ELSE IF have_pyttsx3 THEN _speak_pyttsx3(eng, rate, fault.init, fault.say)
    ELSE Returned(eng, rate)

\* speak_slow (SPEAK_EXPLANATIONS_SLOWER is True): the init() is outside the
\* try; a say()/runAndWait() that raises inside the try leaves the rate
\* lowered and falls back to speak(text), whose own say() is not guarded.
speak_slow(text, eng, rate, fault) ==
    IF text = "" THEN Returned(eng, rate)
    ELSE IF platform_mac THEN _speak_mac(eng, rate, fault)
    ELSE IF have_pyttsx3
    THEN IF eng = "None" /\ fault.init THEN Raising("None", rate)
         ELSE LET rate1 == IF eng = "None" THEN DEFAULT_RATE ELSE rate
              IN  IF fault.say
                  THEN _speak_pyttsx3("Engine", SLOW_RATE_PYTTSX3, FALSE, fault.retry)
                  ELSE Returned("Engine", rate1)
    ELSE speak(text, eng, rate, fault)

-----------------------------------------------------------------------------
(* The statements of one step of run_bot, in code order: print(...),       *)
(* speak(...) and speak_slow(...).  The step stops at the first call that  *)
(* raises; what was printed before it stays printed.                       *)

PrintLine(tag) == [ op |-> "print", text |-> tag ]
Speak(text) == [ op |-> "speak", text |-> text ]
SpeakSlow(text) == [ op |-> "speak_slow", text |-> text ]

\* print(prompt); speak(strip_parentheticals(prompt)) of ask(), before input()
AskScript(prompt) == << PrintLine(prompt), Speak(prompt) >>

\* One statement: the nth narration call of the step meets `fault`, every
\* other call a healthy backend.
Statement(st, item, nth, fault) ==
    IF st.raised # "none" THEN st
    ELSE IF item.op = "print"
    THEN [ st EXCEPT !.printed = Append(@, item.text) ]
    ELSE LET f == IF st.calls + 1 = nth THEN fault ELSE NoFault
             r == IF item.op = "speak"
                  THEN speak(item.text, st.eng, st.rate, f)
                  ELSE speak_slow(item.text, st.eng, st.rate, f)
         IN  [ st EXCEPT !.calls = @ + 1, !.eng = r.engine, !.rate = r.rate,
                         !.raised = IF r.raises THEN item.op ELSE "none" ]

RECURSIVE RunFrom(_, _, _, _)
RunFrom(st, script, nth, fault) ==
    IF script = << >> THEN st
    ELSE RunFrom(Statement(st, Head(script), nth, fault), Tail(script), nth, fault)

Run(script, nth, fault) ==
    RunFrom([ printed |-> << >>, calls |-> 0, eng |-> tts_engine,
              rate |-> tts_rate, raised |-> "none" ], script, nth, fault)

\* The narration calls of a script, at least 1 so that a step can be taken.
Calls(script) ==
    LET n == Cardinality({ i \in 1..Len(script) : script[i].op # "print" })
    IN  IF n = 0 THEN 1 ELSE n

\* The effect of a step's statements on the output and the speech engine.
Narrated(r) ==
    /\ out' = out \o r.printed
    /\ tts_engine' = r.eng
    /\ tts_rate' = r.rate
    /\ raised' = r.raised

-----------------------------------------------------------------------------
(* What the user types: raw lines, which ask() strips.                     *)

CheckinLines ==
    [ emotion      |-> { << >>, <<" ", "l", "o", "n", "e", "l", "y", " ">>, <<"H", "o", "p", "e", "l", "e", "s", "s">> },
      stress       |-> { << >>, <<"S", "E", "V", "E", "R", "E">>, <<"a", "n", "x", "i", "o", "u", "s">> },
      energy       |-> { <<"o", "k">>, <<"L", "o", "w">> },
      thoughts     |-> { << >>, <<"s", "e", "l", "f", "-", "c", "r", "i", "t", "i", "c", "a", "l">>, <<"I", " ", "w", "a", "n", "t", " ", "t", "o", " ", "g", "i", "v", "e", " ", "u", "p">> },
      difficulties |-> { << >>, <<"r", "e", "n", "t">> } ]

FollowupLines == { << >>, <<"I", " ", "c", "a", "n", "'", "t", " ", "g", "o", " ", "o", "n">> }

YesNoLines == { <<"y", "e", "s">>, <<"N", "O">>, <<" ", "Y", "e", "s", " ">>, <<"m", "a", "y", "b", "e">> }

PickLines ==
    StrategyKeys \cup { <<"R", "e", "a", "c", "h", " ", "O", "u", "t">>, <<" ", "S", "e", "l", "f", "-", "C", "o", "m", "p", "a", "s", "s", "i", "o", "n">>, <<"w", "a", "l", "k">> }

\* The `for c in choices` of ask_choice: the first choice the answer matches
\* case-insensitively, << >> when there is none.
FirstMatch(answer, choices) ==
    LET hits == { i \in 1..Len(choices) : lower(answer) = lower(choices[i]) }
    IN  IF hits = {} THEN << >>
        ELSE << choices[CHOOSE i \in hits : \A j \in hits : i <= j] >>

\* choices of the second ask_choice: [k.title() for k in strategies]
TitledStrategies == [ i \in 1..Len(strategies) |-> title(strategies[i]) ]

\* crisis_resources()
CrisisResourcesScript ==
    << PrintLine("crisis_resources"), Speak("immediate danger"), Speak("resources") >>

-----------------------------------------------------------------------------
(* run_bot() as a state machine.                                           *)

\* Before the module is loaded and run_bot() starts: the platform flags are
\* not yet set (FALSE), nothing is asked, printed or raised.
SessionInit ==
    /\ platform_mac = FALSE
    /\ have_pyttsx3 = FALSE
    /\ say_on_path = FALSE
    /\ tts_engine = "None"
    /\ tts_rate = 0
    /\ pc = "Load"
    /\ answers = NoAnswers
    /\ user_inputs = << >>
    /\ crisis_flag = FALSE
    /\ followup_resps = << >>
    /\ score = 0
    /\ themes = << >>
    /\ strategies = << >>
    /\ explained = << >>
    /\ choice = << >>
    /\ chosen = << >>
    /\ shown_desc = ""
    /\ retries = 0
    /\ out = << >>
    /\ raised = "none"

\* No core function has been called directly.
NoCall == [ fn |-> "none", answers |-> NoAnswers, themes |-> << >>, results |-> << >> ]

Init == SessionInit /\ call = NoCall

\* Module load: platform.system() and the guarded import of pyttsx3.
LoadModule ==
    /\ pc = "Load"
    /\ \E mac \in BOOLEAN, py \in BOOLEAN :
         \E which \in (IF mac THEN BOOLEAN ELSE { FALSE }) :
            /\ platform_mac' = mac
            /\ have_pyttsx3' = py
            /\ say_on_path' = which
    /\ pc' = "Greeting"
    /\ UNCHANGED << tts_engine, tts_rate, answers, user_inputs, crisis_flag,
                    followup_resps, score, themes, strategies, explained,
                    choice, chosen, shown_desc, retries, out, raised, call >>

\* run_bot: the greeting and the empty answers, crisis_flag, user_inputs.
Greeting ==
    /\ pc = "Greeting"
    /\ LET script == << PrintLine("greeting"), Speak("greeting"),
                        PrintLine("checkin_intro"), Speak("checkin_intro") >>
       IN  \E nth \in 1..Calls(script), fault \in Faults :
              LET r == Run(script, nth, fault)
              IN  /\ Narrated(r)
                  /\ pc' = IF r.raised = "none" THEN "Checkin" ELSE "Crashed"
    /\ UNCHANGED << platform_mac, have_pyttsx3, say_on_path, answers,
                    user_inputs, crisis_flag, followup_resps, score, themes,
                    strategies, explained, choice, chosen, shown_desc,
                    retries, call >>

\* One turn of `for q, key in CHECKIN_QUESTIONS`: ask, record, test for
\* crisis; the loop has no break.
AskCheckin ==
    /\ pc = "Checkin"
    /\ LET key == CHECKIN_QUESTIONS[Len(user_inputs) + 1]
           script == AskScript("checkin_question")
       IN  \E nth \in 1..Calls(script), fault \in Faults, line \in CheckinLines[key] :
              LET r == Run(script, nth, fault)
                  resp == strip(line)
              IN  /\ Narrated(r)
                  /\ IF r.raised = "none"
                     THEN /\ answers' = [ answers EXCEPT ![key] = resp ]
                          /\ user_inputs' = Append(user_inputs, resp)
                          /\ crisis_flag' = (crisis_flag \/ contains_crisis(resp))
                          /\ pc' = IF Len(user_inputs) + 1 = Len(CHECKIN_QUESTIONS)
                                   THEN "CrisisGate" ELSE "Checkin"
                     ELSE /\ pc' = "Crashed"
                          /\ UNCHANGED << answers, user_inputs, crisis_flag >>
    /\ UNCHANGED << platform_mac, have_pyttsx3, say_on_path, followup_resps,
                    score, themes, strategies, explained, choice, chosen,
                    shown_desc, retries, call >>

\* `if crisis_flag: crisis_resources(); return` after the check-in loop.
CrisisExit ==
    /\ pc = "CrisisGate"
    /\ crisis_flag
    /\ \E nth \in 1..Calls(CrisisResourcesScript), fault \in Faults :
          LET r == Run(CrisisResourcesScript, nth, fault)
          IN  /\ Narrated(r)
              /\ pc' = IF r.raised = "none" THEN "CrisisExit" ELSE "Crashed"
    /\ UNCHANGED << platform_mac, have_pyttsx3, say_on_path, answers,
                    user_inputs, crisis_flag, followup_resps, score, themes,
                    strategies, explained, choice, chosen, shown_desc,
                    retries, call >>

\* The reflective summary and the announcement of the follow-ups.
Reflect ==
    /\ pc = "CrisisGate"
    /\ ~crisis_flag
    /\ LET script == << PrintLine("summary"), Speak("thanks for sharing"),
                        PrintLine("followup_intro"), Speak("followup_intro") >>
       IN  \E nth \in 1..Calls(script), fault \in Faults :
              LET r == Run(script, nth, fault)
              IN  /\ Narrated(r)
                  /\ pc' = IF r.raised = "none" THEN "FollowUpStress" ELSE "Crashed"
    /\ UNCHANGED << platform_mac, have_pyttsx3, say_on_path, answers,
                    user_inputs, crisis_flag, followup_resps, score, themes,
                    strategies, explained, choice, chosen, shown_desc,
                    retries, call >>

\* One `if` of follow_up: ask and append the response when the condition
\* holds, go on otherwise.
FollowUpStep(at, asks, next) ==
    /\ pc = at
    /\ IF asks
       THEN LET script == AskScript("followup_question")
            IN  \E nth \in 1..Calls(script), fault \in Faults, line \in FollowupLines :
                   LET r == Run(script, nth, fault)
                   IN  /\ Narrated(r)
                       /\ IF r.raised = "none"
                          THEN /\ followup_resps' = Append(followup_resps, strip(line))
                               /\ pc' = next
                          ELSE /\ pc' = "Crashed"
                               /\ UNCHANGED followup_resps
       ELSE /\ pc' = next
            /\ UNCHANGED << followup_resps, out, tts_engine, tts_rate, raised >>
    /\ UNCHANGED << platform_mac, have_pyttsx3, say_on_path, answers,
                    user_inputs, crisis_flag, score, themes, strategies,
                    explained, choice, chosen, shown_desc, retries, call >>

FollowUpStress ==
    FollowUpStep("FollowUpStress", In(<<"s", "e", "v", "e", "r", "e">>, lower(answers["stress"])),
                 "FollowUpEnergy")

FollowUpEnergy ==
    FollowUpStep("FollowUpEnergy", In(<<"l", "o", "w">>, lower(answers["energy"])),
                 "FollowUpSupport")

FollowUpSupport ==
    FollowUpStep("FollowUpSupport", strip(answers["difficulties"]) # << >>,
                 "ThankMore")

\* `if followup_resps:` thank the user for sharing more.
ThankMore ==
    /\ pc = "ThankMore"
    /\ LET script == IF followup_resps # << >>
                     THEN << PrintLine("thanks_more"), Speak("thanks_more") >>
                     ELSE << >>
       IN  \E nth \in 1..Calls(script), fault \in Faults :
              LET r == Run(script, nth, fault)
              IN  /\ Narrated(r)
                  /\ pc' = IF r.raised = "none" THEN "ScoreRecommend" ELSE "Crashed"
    /\ UNCHANGED << platform_mac, have_pyttsx3, say_on_path, answers,
                    user_inputs, crisis_flag, followup_resps, score, themes,
                    strategies, explained, choice, chosen, shown_desc,
                    retries, call >>

\* print_recommendations(strategies): one printed and spoken line each.
RecommendationsScript(strats) ==
    IF strats = << >> THEN << >>
    ELSE [ i \in 1..(2 * Len(strats)) |->
             IF i % 2 = 1 THEN PrintLine("recommendation") ELSE Speak("recommendation") ]

\* Score and recommend: score, themes, strategies, then the suggestions.
ScoreRecommend ==
    /\ pc = "ScoreRecommend"
    /\ score' = score_checkin(answers)
    /\ themes' = rank_themes(answers)
    /\ strategies' = choose_strategies(rank_themes(answers))
    /\ LET script == << PrintLine("suggestions_intro"), Speak("suggestions_intro") >>
                     \o RecommendationsScript(choose_strategies(rank_themes(answers)))
       IN  \E nth \in 1..Calls(script), fault \in Faults :
              LET r == Run(script, nth, fault)
              IN  /\ Narrated(r)
                  /\ pc' = IF r.raised = "none" THEN "Explain" ELSE "Crashed"
    /\ UNCHANGED << platform_mac, have_pyttsx3, say_on_path, answers,
                    user_inputs, crisis_flag, followup_resps, explained,
                    choice, chosen, shown_desc, retries, call >>

\* The prints and narration of explain_why for what it renders.
ExplainScript(e) ==
    IF e.generic
    THEN << PrintLine("generic_reason"), Speak("generic_reason") >>
    ELSE << PrintLine("reason"), SpeakSlow("here is why") >>
         \o [ i \in 1..(2 * Len(e.lines)) |->
                IF i % 2 = 1 THEN PrintLine("evidence") ELSE SpeakSlow("evidence") ]

\* "Here's why ..." and explain_why(strategies, themes, answers).
Explain ==
    /\ pc = "Explain"
    /\ LET e == explain_why(strategies, themes, answers)
           script == << PrintLine("why_intro"), SpeakSlow("why_intro") >> \o ExplainScript(e)
       IN  \E nth \in 1..Calls(script), fault \in Faults :
              LET r == Run(script, nth, fault)
                  shown == Cardinality({ i \in 1..Len(r.printed) :
                                           r.printed[i] = "evidence" })
              IN  /\ Narrated(r)
                  /\ explained' = Prefix(e.lines, shown)
                  /\ pc' = IF r.raised = "none" THEN "Recheck" ELSE "Crashed"
    /\ UNCHANGED << platform_mac, have_pyttsx3, say_on_path, answers,
                    user_inputs, crisis_flag, followup_resps, score, themes,
                    strategies, choice, chosen, shown_desc, retries, call >>

\* any(contains_crisis(r) for r in followup_resps)
FollowupCrisis ==
    \E i \in 1..Len(followup_resps) : contains_crisis(followup_resps[i])

\* The crisis check of the follow-up answers, taken: crisis_resources(); return
CrisisRecheckExit ==
    /\ pc = "Recheck"
    /\ FollowupCrisis
    /\ \E nth \in 1..Calls(CrisisResourcesScript), fault \in Faults :
          LET r == Run(CrisisResourcesScript, nth, fault)
          IN  /\ Narrated(r)
              /\ pc' = IF r.raised = "none" THEN "CrisisExit" ELSE "Crashed"
    /\ UNCHANGED << platform_mac, have_pyttsx3, say_on_path, answers,
                    user_inputs, crisis_flag, followup_resps, score, themes,
                    strategies, explained, choice, chosen, shown_desc,
                    retries, call >>

\* The offer of an exercise, up to the speak() that opens ask_choice.
OfferExercise ==
    /\ pc = "Recheck"
    /\ ~FollowupCrisis
    /\ LET script == << PrintLine("exercise_offer"), Speak("exercise_offer"),
                        Speak("try one now") >>
       IN  \E nth \in 1..Calls(script), fault \in Faults :
              LET r == Run(script, nth, fault)
              IN  /\ Narrated(r)
                  /\ pc' = IF r.raised = "none" THEN "AskYesNo" ELSE "Crashed"
    /\ retries' = 0
    /\ UNCHANGED << platform_mac, have_pyttsx3, say_on_path, answers,
                    user_inputs, crisis_flag, followup_resps, score, themes,
                    strategies, explained, choice, chosen, shown_desc, call >>

\* What run_bot does with the choice c that ask_choice returned:
\* `choice = ...; if choice.lower() == "yes"` or `chosen = ...`.
Returns(at, c) ==
    IF at = "AskYesNo"
    THEN /\ choice' = c
         /\ chosen' = chosen
         /\ pc' = IF lower(c) = <<"y", "e", "s">> THEN "BeginPick" ELSE "Closing"
    ELSE /\ chosen' = c
         /\ choice' = choice
         /\ pc' = "GuidedExercise"

\* One turn of the `while True` of ask_choice at position `at`: ask, return
\* the matching choice, or print the options and ask again.
AskChoiceTurn(at, choices, lines) ==
    /\ pc = at
    /\ LET script == AskScript("choice_prompt")
       IN  \E nth \in 1..Calls(script), fault \in Faults, line \in lines :
              LET r == Run(script, nth, fault)
                  m == FirstMatch(strip(line), choices)
              IN  /\ m # << >> \/ retries < MaxRetries
                  /\ tts_engine' = r.eng
                  /\ tts_rate' = r.rate
                  /\ raised' = r.raised
                  /\ IF r.raised # "none"
                     THEN /\ pc' = "Crashed"
                          /\ out' = out \o r.printed
                          /\ UNCHANGED << choice, chosen, retries >>
                     ELSE IF m # << >>
                     THEN /\ Returns(at, m[1])
                          /\ out' = out \o r.printed
                          /\ retries' = 0
                     ELSE /\ pc' = at
                          /\ out' = out \o r.printed \o << "please_choose" >>
                          /\ retries' = retries + 1
                          /\ UNCHANGED << choice, chosen >>
    /\ UNCHANGED << platform_mac, have_pyttsx3, say_on_path, answers,
                    user_inputs, crisis_flag, followup_resps, score, themes,
                    strategies, explained, shown_desc, call >>

\* choice = ask_choice(..., ["yes", "no"]) and `if choice.lower() == "yes"`
AskYesNo == AskChoiceTurn("AskYesNo", << <<"y", "e", "s">>, <<"n", "o">> >>, YesNoLines)

\* The speak() that opens the second ask_choice.
BeginPick ==
    /\ pc = "BeginPick"
    /\ LET script == << Speak("which would you like") >>
       IN  \E nth \in 1..Calls(script), fault \in Faults :
              LET r == Run(script, nth, fault)
              IN  /\ Narrated(r)
                  /\ pc' = IF r.raised = "none" THEN "AskPick" ELSE "Crashed"
    /\ retries' = 0
    /\ UNCHANGED << platform_mac, have_pyttsx3, say_on_path, answers,
                    user_inputs, crisis_flag, followup_resps, score, themes,
                    strategies, explained, choice, chosen, shown_desc, call >>

\* chosen = ask_choice(..., [k.title() for k in strategies])
AskPick == AskChoiceTurn("AskPick", TitledStrategies, PickLines)

\* chosen_key = chosen.lower() and the steps of the chosen strategy;
\* STRATEGIES[chosen_key] is a KeyError for a key the lexicon lacks.
GuidedExercise ==
    /\ pc = "GuidedExercise"
    /\ LET chosen_key == lower(chosen)
           known == chosen_key \in StrategyKeys
           script == << PrintLine("exercise_steps"), Speak("exercise_steps") >>
                     \o (IF known THEN << PrintLine("description"), Speak("description") >>
                         ELSE << >>)
       IN  \E nth \in 1..Calls(script), fault \in Faults :
              LET r == Run(script, nth, fault)
                  desc_printed == \E i \in 1..Len(r.printed) : r.printed[i] = "description"
              IN  /\ out' = out \o r.printed
                  /\ tts_engine' = r.eng
                  /\ tts_rate' = r.rate
                  /\ raised' = IF r.raised = "none" /\ ~known THEN "KeyError"
                               ELSE r.raised
                  /\ shown_desc' = IF desc_printed THEN StrategyOf(chosen_key).desc
                                   ELSE shown_desc
                  /\ pc' = IF r.raised = "none" /\ known THEN "Closing" ELSE "Crashed"
    /\ UNCHANGED << platform_mac, have_pyttsx3, say_on_path, answers,
                    user_inputs, crisis_flag, followup_resps, score, themes,
                    strategies, explained, choice, chosen, retries, call >>

\* The closing remarks; run_bot returns.
Closing ==
    /\ pc = "Closing"
    /\ LET script == << PrintLine("reminder"), Speak("reminder"),
                        PrintLine("closing"), Speak("closing"),
                        PrintLine("closing_advice"), Speak("closing_advice") >>
       IN  \E nth \in 1..Calls(script), fault \in Faults :
              LET r == Run(script, nth, fault)
              IN  /\ Narrated(r)
                  /\ pc' = IF r.raised = "none" THEN "Closed" ELSE "Crashed"
    /\ UNCHANGED << platform_mac, have_pyttsx3, say_on_path, answers,
                    user_inputs, crisis_flag, followup_resps, score, themes,
                    strategies, explained, choice, chosen, shown_desc,
                    retries, call >>

Next ==
    \/ LoadModule
    \/ Greeting
    \/ AskCheckin
    \/ CrisisExit
    \/ Reflect
    \/ FollowUpStress
    \/ FollowUpEnergy
    \/ FollowUpSupport
    \/ ThankMore
    \/ ScoreRecommend
    \/ Explain
    \/ CrisisRecheckExit
    \/ OfferExercise
    \/ AskYesNo
    \/ BeginPick
    \/ AskPick
    \/ GuidedExercise
    \/ Closing

Spec == Init /\ [][Next]_vars

\* The interpreter runs the next statement, and the user answers each
\* prompt: a step that can be taken is taken.
FairSpec == Spec /\ WF_vars(Next)

-----------------------------------------------------------------------------
(* Direct calls of the core functions.  The inputs are drawn in the        *)
(* initial state; each action applies the function as the code computes it *)
(* and records what it returned.                                           *)

\* The texts of at most n words of a vocabulary, joined by single spaces.
Phrases(vocab, n) ==
    { join(<< " " >>, ws) : ws \in UNION { [1..k -> vocab] : k \in 0..n } }

\* Answer sets given to score_checkin.
ScoreAnswerSets ==
    { [ emotion      |-> e,
        stress       |-> s,
        energy       |-> n,
        thoughts     |-> t,
        difficulties |-> d ] :
      e \in Phrases({ <<"h", "o", "p", "e", "l", "e", "s", "s">> }, MaxWords),
      s \in Phrases({ <<"s", "e", "v", "e", "r", "e">>, <<"M", "o", "d", "e", "r", "a", "t", "e">> }, MaxWords),
      n \in Phrases({ <<"l", "o", "w">>, <<"O", "K">> }, MaxWords),
      t \in Phrases({ <<"I", " ", "w", "a", "n", "t", " ", "t", "o", " ", "D", "I", "E">> }, MaxWords),
      d \in Phrases({ <<"r", "e", "n", "t">>, <<" ">> }, MaxWords) }

\* Answer sets given to rank_themes: every trigger also appears in a field
\* its rule does not read.
ThemeAnswerSets ==
    { [ emotion      |-> e,
        stress       |-> s,
        energy       |-> n,
        thoughts     |-> t,
        difficulties |-> d ] :
      e \in Phrases({ <<"I", " ", "f", "e", "e", "l", " ", "h", "o", "p", "e", "l", "e", "s", "s", " ", "a", "n", "d", " ", "p", "a", "n", "i", "c", "k", "y">>, <<"L", "o", "n", "e", "l", "y">> }, MaxWords),
      s \in Phrases({ <<"a", "n", "x", "i", "o", "u", "s", " ", "l", "o", "w">> }, MaxWords),
      n \in Phrases({ <<"S", "l", "o", "w", " ", "p", "a", "n", "i", "c">> }, MaxWords),
      t \in Phrases({ <<"O", "v", "e", "r", "t", "h", "i", "n", "k", "i", "n", "g">>, <<"s", "e", "l", "f", "-", "c", "r", "i", "t", "i", "c", "a", "l">> }, MaxWords),
      d \in Phrases({ <<"l", "o", "n", "e", "l", "y", " ", "a", "n", "x", "i", "o", "u", "s">> }, MaxWords) }

\* Answer sets given to explain_why: cues and missing-cue examples, some
\* mentioned and some not.
ExplainAnswerSets ==
    { [ emotion      |-> e,
        stress       |-> << >>,
        energy       |-> << >>,
        thoughts     |-> t,
        difficulties |-> d ] :
      e \in Phrases({ <<"a", "n", "x", "i", "o", "u", "s", " ", "w", "o", "r", "r", "y">>, <<"R", "a", "c", "i", "n", "g", " ", "T", "h", "o", "u", "g", "h", "t", "s">> }, MaxWords),
      t \in Phrases({ <<"m", "u", "s", "c", "l", "e", " ", "t", "e", "n", "s", "i", "o", "n">>, <<"r", "e", "s", "t", "l", "e", "s", "s", "n", "e", "s", "s">> }, MaxWords),
      d \in { << >>, <<"r", "e", "g", "u", "l", "a", "r", " ", "m", "e", "a", "l", "s">> } }

\* The seven themes rank_themes can emit, in rule-declaration order.
THEMES ==
    << "anxiety", "low energy", "overthinking", "hopelessness", "panic",
       "loneliness", "self-criticism" >>

\* The members of a set of indices, ascending.
RECURSIVE Ascending(_)
Ascending(S) ==
    IF S = {} THEN << >>
    ELSE LET m == CHOOSE x \in S : \A y \in S : x <= y
         IN  << m >> \o Ascending(S \ {m})

\* Every list rank_themes can return: the duplicate-free sub-lists of THEMES.
ThemeLists ==
    { [ i \in 1..Cardinality(S) |-> THEMES[Ascending(S)[i]] ] :
      S \in SUBSET (1..Len(THEMES)) }

InitScore ==
    /\ SessionInit
    /\ \E a \in ScoreAnswerSets :
          call = [ fn |-> "score_checkin", answers |-> a, themes |-> << >>,
                   results |-> << >> ]

InitThemes ==
    /\ SessionInit
    /\ \E a \in ThemeAnswerSets :
          call = [ fn |-> "rank_themes", answers |-> a, themes |-> << >>,
                   results |-> << >> ]

InitStrategies ==
    /\ SessionInit
    /\ \E ths \in ThemeLists :
          call = [ fn |-> "choose_strategies", answers |-> NoAnswers,
                   themes |-> ths, results |-> << >> ]

InitExplain ==
    /\ SessionInit
    /\ \E a \in ExplainAnswerSets, ths \in ThemeLists :
          call = [ fn |-> "explain_why", answers |-> a, themes |-> ths,
                   results |-> << >> ]

\* score_checkin(answers), called once and once again on the same answers.
CallScore ==
    /\ call.fn = "score_checkin"
    /\ Len(call.results) < 2
    /\ call' = [ call EXCEPT !.results = Append(@, score_checkin(call.answers)) ]
    /\ UNCHANGED session_vars

\* rank_themes(answers)
CallRankThemes ==
    /\ call.fn = "rank_themes"
    /\ Len(call.results) < 1
    /\ call' = [ call EXCEPT !.results = Append(@, rank_themes(call.answers)) ]
    /\ UNCHANGED session_vars

\* choose_strategies(themes), called once and once again on the same list.
CallChooseStrategies ==
    /\ call.fn = "choose_strategies"
    /\ Len(call.results) < 2
    /\ call' = [ call EXCEPT !.results = Append(@, choose_strategies(call.themes)) ]
    /\ UNCHANGED session_vars

\* explain_why(strategies, themes, answers)
CallExplainWhy ==
    /\ call.fn = "explain_why"
    /\ Len(call.results) < 1
    /\ call' = [ call EXCEPT !.results =
                   Append(@, explain_why(choose_strategies(call.themes),
                                         call.themes, call.answers)) ]
    /\ UNCHANGED session_vars

SpecScore == InitScore /\ [][CallScore]_vars

SpecThemes == InitThemes /\ [][CallRankThemes]_vars

SpecStrategies == InitStrategies /\ [][CallChooseStrategies]_vars

SpecExplain == InitExplain /\ [][CallExplainWhy]_vars

-----------------------------------------------------------------------------
(* Properties of the core functions.                                       *)

Elems(xs) == { xs[i] : i \in 1..Len(xs) }

LexiconIndex(k) == CHOOSE i \in 1..Len(STRATEGIES) : STRATEGIES[i].key = k

\* The strategies whose associated themes share a theme with the list.
Overlapping(ths) ==
    { s.key : s \in { v \in Elems(STRATEGIES) : Elems(v.themes) \cap Elems(ths) # {} } }

InLexiconOrder(recs) ==
    \A i, j \in 1..Len(recs) :
        i < j => LexiconIndex(recs[i]) < LexiconIndex(recs[j])

\* C7: for every duplicate-free sub-list of the seven themes, choose_strategies
\* returns exactly the strategies whose theme set intersects the list, in
\* lexicon order and none twice; a non-empty list always matches something,
\* so the fallback [mindfulness, reach out] is returned for the empty list
\* only; a second call on the same list returns the same list.
C7_ChooseStrategies ==
    call.fn = "choose_strategies" =>
        \A n \in 1..Len(call.results) :
            LET recs == call.results[n]
            IN  /\ recs = call.results[1]
                /\ IF call.themes = << >>
                   THEN recs = << <<"m", "i", "n", "d", "f", "u", "l", "n", "e", "s", "s">>, <<"r", "e", "a", "c", "h", " ", "o", "u", "t">> >>
                   ELSE /\ Overlapping(call.themes) # {}
                        /\ Elems(recs) = Overlapping(call.themes)
                        /\ InLexiconOrder(recs)

\* C7 witness: themes given as [low energy, panic] came back, twice, as
\* mindfulness, movement, grounding (lexicon order, not theme order).
C7_Witness ==
    /\ call.fn = "choose_strategies"
    /\ call.themes = << "low energy", "panic" >>
    /\ call.results = << << <<"m", "i", "n", "d", "f", "u", "l", "n", "e", "s", "s">>, <<"m", "o", "v", "e", "m", "e", "n", "t">>, <<"g", "r", "o", "u", "n", "d", "i", "n", "g">> >>,
                         << <<"m", "i", "n", "d", "f", "u", "l", "n", "e", "s", "s">>, <<"m", "o", "v", "e", "m", "e", "n", "t">>, <<"g", "r", "o", "u", "n", "d", "i", "n", "g">> >> >>

Has(word, text) == In(word, lower(text))

\* The sum the scoring rules describe.
RuleScore(a) ==
    LET stress_pts == IF Has(<<"s", "e", "v", "e", "r", "e">>, a.stress) THEN 2
                      ELSE IF Has(<<"m", "o", "d", "e", "r", "a", "t", "e">>, a.stress) THEN 1 ELSE 0
        energy_pts == IF Has(<<"l", "o", "w">>, a.energy) THEN 1 ELSE 0
        crisis_pts == IF \E k \in Elems(CRISIS_KEYWORDS) : Has(k, a.thoughts)
                      THEN 3 ELSE 0
        diff_pts   == IF \E i \in 1..Len(a.difficulties) : a.difficulties[i] # " "
                      THEN 1 ELSE 0
    IN  stress_pts + energy_pts + crisis_pts + diff_pts

ExampleAnswers ==
    [ emotion |-> << >>, stress |-> <<"s", "e", "v", "e", "r", "e">>, energy |-> <<"l", "o", "w">>,
      thoughts |-> << >>, difficulties |-> <<"r", "e", "n", "t">> ]

\* C8: score_checkin returns 2 for "severe" in stress, else 1 for "moderate"
\* (never both), plus 1 for "low" in energy, plus 3 for a crisis keyword in
\* thoughts, plus 1 for difficulties that are non-empty after trimming, all
\* case-insensitive; the result is a non-negative integer, the same on a
\* repeated call, and 4 for severe / low / "" / rent.
C8_ScoreCheckin ==
    call.fn = "score_checkin" =>
        \A n \in 1..Len(call.results) :
            /\ call.results[n] = RuleScore(call.answers)
            /\ call.results[n] \in Nat
            /\ call.results[n] = call.results[1]
            /\ (\A k \in { "stress", "energy", "thoughts", "difficulties" } :
                    call.answers[k] = ExampleAnswers[k]) => call.results[n] = 4

\* C8 witness: the answers severe / low / "" / rent were scored twice, as 4.
C8_Witness ==
    /\ call.fn = "score_checkin"
    /\ \A k \in { "stress", "energy", "thoughts", "difficulties" } :
          call.answers[k] = ExampleAnswers[k]
    /\ call.results = << 4, 4 >>

\* The rule of each theme: one trigger in one field.
RuleFires(theme, a) ==
    CASE theme = "anxiety"        -> Has(<<"a", "n", "x">>, a.stress)
      [] theme = "low energy"     -> Has(<<"l", "o", "w">>, a.energy)
      [] theme = "overthinking"   -> Has(<<"o", "v", "e", "r", "t", "h", "i", "n", "k">>, a.thoughts)
      [] theme = "hopelessness"   -> Has(<<"h", "o", "p", "e", "l", "e", "s", "s">>, a.emotion)
      [] theme = "panic"          -> Has(<<"p", "a", "n", "i", "c">>, a.emotion)
      [] theme = "loneliness"     -> Has(<<"l", "o", "n", "e", "l", "y">>, a.emotion)
      [] theme = "self-criticism" -> Has(<<"s", "e", "l", "f", "-", "c", "r", "i", "t">>, a.thoughts)

ThemeIndex(t) == CHOOSE i \in 1..Len(THEMES) : THEMES[i] = t

\* C9: rank_themes returns a duplicate-free list that holds a theme exactly
\* when that theme's rule fires on the field the rule inspects, ordered by
\* rule declaration: anxiety, low energy, overthinking, hopelessness, panic,
\* loneliness, self-criticism.
C9_RankThemes ==
    call.fn = "rank_themes" =>
        \A n \in 1..Len(call.results) :
            LET ths == call.results[n]
            IN  /\ Elems(ths) \subseteq Elems(THEMES)
                /\ \A t \in Elems(THEMES) :
                       t \in Elems(ths) <=> RuleFires(t, call.answers)
                /\ \A i, j \in 1..Len(ths) :
                       i < j => ThemeIndex(ths[i]) < ThemeIndex(ths[j])

\* C9 witness: an emotion of "I feel hopeless and panicky", with no other
\* rule firing, came back as [hopelessness, panic].
C9_Witness ==
    /\ call.fn = "rank_themes"
    /\ call.answers.emotion = <<"I", " ", "f", "e", "e", "l", " ", "h", "o", "p", "e", "l", "e", "s", "s", " ", "a", "n", "d", " ", "p", "a", "n", "i", "c", "k", "y">>
    /\ call.results = << << "hopelessness", "panic" >> >>

Min(a, b) == IF a < b THEN a ELSE b

\* The lower-cased corpus of all answers.
Corpus(a) ==
    lower(a.emotion \o << " " >> \o a.stress \o << " " >> \o a.energy
          \o << " " >> \o a.thoughts \o << " " >> \o a.difficulties)

\* The positions of a theme's configured missing_examples that the corpus
\* does not mention.
Unmentioned(theme, a) ==
    LET m == CuesOf(theme).missing_examples
    IN  { j \in 1..Len(m) : ~In(lower(m[j]), Corpus(a)) }

\* shown is the first (at most two) unmentioned examples, in configured order.
FirstTwoUnmentioned(shown, theme, a) ==
    LET m == CuesOf(theme).missing_examples
        U == Unmentioned(theme, a)
    IN  /\ Len(shown) = Min(2, Cardinality(U))
        /\ \A k \in 1..Len(shown) :
               \E j \in U : /\ Cardinality({ i \in U : i <= j }) = k
                            /\ shown[k] = m[j]

-----------------------------------------------------------------------------
(* Properties of the session.                                              *)

Terminal == { "Closed", "CrisisExit", "Crashed" }

Printed(tag) == \E i \in 1..Len(out) : out[i] = tag

Count(tag) == Cardinality({ i \in 1..Len(out) : out[i] = tag })

\* C1: no check-in question is asked after the first check-in answer that
\* contains a crisis phrase (stated for sessions in which nothing raised).
C1_NoQuestionAfterCrisis ==
    raised = "none" =>
        \A i \in 1..Len(user_inputs) :
            contains_crisis(user_inputs[i]) => Count("checkin_question") <= i

\* All five check-in answers are in and one of them contains a crisis phrase.
CheckinCrisis ==
    /\ Len(user_inputs) = Len(CHECKIN_QUESTIONS)
    /\ \E i \in 1..Len(user_inputs) : contains_crisis(user_inputs[i])

\* What a session past the check-in prints before the crisis re-check.
AfterCheckinTags ==
    { "summary", "followup_intro", "followup_question", "thanks_more",
      "suggestions_intro", "recommendation", "why_intro", "generic_reason",
      "reason", "evidence" }

\* What a session prints from the exercise offer on.
ExerciseAndClosingTags ==
    { "exercise_offer", "choice_prompt", "please_choose", "exercise_steps",
      "description", "reminder", "closing", "closing_advice" }

\* C2: a session with a crisis phrase among its five check-in answers goes
\* from the check-in to the crisis-resource terminal state and nowhere else,
\* and prints no summary, follow-up question, recommendation, explanation,
\* exercise offer or closing remarks.
C2_CheckinCrisisShortCircuit ==
    CheckinCrisis =>
        /\ pc \in { "CrisisGate", "CrisisExit" }
        /\ \A tag \in AfterCheckinTags \cup ExerciseAndClosingTags : ~Printed(tag)

\* An answer received so far, check-in or follow-up, contains a crisis phrase.
CrisisHeard ==
    \/ \E i \in 1..Len(user_inputs) : contains_crisis(user_inputs[i])
    \/ FollowupCrisis

\* What the step printed.
NewOutput == SubSeq(out', Len(out) + 1, Len(out'))

\* C3: once an answer containing a crisis phrase has been received, no
\* step prints a recommendation or an explanation (stated for steps in
\* which nothing raises).
C3_NoRecommendationAfterCrisis ==
    [][ (CrisisHeard /\ raised' = "none") =>
            \A i \in 1..Len(NewOutput) :
                NewOutput[i] \notin { "recommendation", "generic_reason",
                                      "reason", "evidence" } ]_vars

\* C4: a session that passed the check-in without crisis and got through
\* its follow-ups to the suggestions ends, when a follow-up answer contains
\* a crisis phrase, in the crisis-resource terminal state without printing
\* anything of the exercise offer or the closing, and otherwise gets to the
\* exercise offer and not to the crisis resources.
C4_CrisisRecheck ==
    (Printed("suggestions_intro") /\ pc \in Terminal) =>
        IF FollowupCrisis
        THEN /\ pc = "CrisisExit"
             /\ \A tag \in ExerciseAndClosingTags : ~Printed(tag)
        ELSE /\ Printed("exercise_offer")
             /\ ~Printed("crisis_resources")

\* C5: speak and speak_slow return without raising, whatever the platform
\* and whatever the speech backend does.
C5_NarrationNeverRaises == raised \notin { "speak", "speak_slow" }

\* C6: the session raises no error and ends in Closing or in the crisis
\* resources; the name picked for the exercise is one of the recommended
\* strategies, its lower-casing is a key of the lexicon, and the description
\* shown is that key's.
C6_TotalAndTerminating ==
    /\ [](raised = "none")
    /\ <>(pc \in { "Closed", "CrisisExit" })
    /\ [](pc \in { "GuidedExercise", "Closing", "Closed" } /\ chosen # << >> =>
            /\ \E i \in 1..Len(strategies) : chosen = title(strategies[i])
            /\ lower(chosen) \in StrategyKeys
            /\ shown_desc # "" => shown_desc = StrategyOf(lower(chosen)).desc)


\* run_bot has computed score, themes and strategies: the line that opens
\* the suggestions is printed right after them.
ScoreReached == Printed("suggestions_intro")

\* A check-in that fires every scoring rule and the hopelessness rule.
DistressedAnswers ==
    [ emotion      |-> <<"h", "o", "p", "e", "l", "e", "s", "s">>,
      stress       |-> <<"s", "e", "v", "e", "r", "e">>,
      energy       |-> <<"l", "o", "w">>,
      thoughts     |-> <<"I", " ", "w", "a", "n", "t", " ", "t", "o", " ", "d", "i", "e">>,
      difficulties |-> <<"r", "e", "n", "t">> ]

\* C11: in a session that has reached the Score/Recommend step no check-in
\* answer contains a crisis keyword, so the +3 rule and the hopelessness rule
\* have not fired: the score is between 0 and 4 and the themes given to
\* choose_strategies and explain_why (and the evidence lines printed from
\* them) do not include hopelessness; called directly, score_checkin returns
\* 7 and rank_themes returns hopelessness for a check-in that triggers them.
C11_SessionScoreRange ==
    /\ ScoreReached =>
          /\ \A i \in 1..Len(CHECKIN_QUESTIONS) :
                ~contains_crisis(answers[CHECKIN_QUESTIONS[i]])
          /\ score = score_checkin(answers)
          /\ score \in 0..4
          /\ themes = rank_themes(answers)
          /\ "hopelessness" \notin Elems(themes)
          /\ strategies = choose_strategies(themes)
          /\ \A i \in 1..Len(explained) : explained[i].theme # "hopelessness"
    /\ score_checkin(DistressedAnswers) = 7
    /\ "hopelessness" \in Elems(rank_themes(DistressedAnswers))

\* A session past the Score/Recommend step with the highest score a session
\* can have, three themes and a non-empty thoughts answer.
C11_Witness ==
    /\ ScoreReached
    /\ score = 4
    /\ Len(themes) = 3
    /\ answers["thoughts"] # << >>
    /\ Len(explained) > 0
=============================================================================
